---------------------------- MODULE Spec2Model ----------------------------
(***************************************************************************)
(* WebVrm: the perception-to-rig pipeline.                                 *)
(*                                                                         *)
(*   useMediaPipeTracking  (src/src/hooks/useMediaPipeTracking.js)         *)
(*   useVRMAnimation       (src/unnamed/part_000, lines 1-172)             *)
(*   useVRMRenderer        (src/unnamed/part_000, lines 179-320)           *)
(*   VTuberApp             (src/src/App.jsx)                               *)
(*                                                                         *)
(* Units.  Landmark coordinates are normalised to [0,1] in the code; here  *)
(* a coordinate is an integer number of 1/120ths, so 0.5 is 60, 0.45 is 54 *)
(* and 2/3 is 80.  Head rotation is kept in quarter degrees, which makes   *)
(* (N.x - 0.5) * 60 and (N.y - (L.y + R.y)/2) * 60 exact integers.         *)
(* Blend-shape scores, micLevel, lipSyncSensitivity and trackingSmoothing  *)
(* are in tenths (the sliders of App.jsx step by 0.1).  Bone angles set    *)
(* from atan2 are in degrees; wall-clock time is in hundredths of a second.*)
(***************************************************************************)
EXTENDS Integers, Sequences, FiniteSets, TLC

VARIABLES
    isTracking,          \* App.jsx:13   useState(false)
    srcObject,           \* App.jsx:153  videoRef.current.srcObject was set
    videoReady,          \* videoRef.current.readyState >= 2
    settings,            \* App.jsx:33   the settings object
    micLevel,            \* App.jsx:15   useState(0), tenths
    faceObj,             \* the one object every trackingData.face refers to
    handsObj,            \* the one object every trackingData.hands refers to
    pose,                \* trackingData.pose of the current React state
    detectionStatus,     \* useMediaPipeTracking.js:22
    faceLandmarkerRef,   \* useMediaPipeTracking.js:28  "null" | "open" |
                         \* "closed" (close() was called on the object)
    poseLandmarkerRef,   \* useMediaPipeTracking.js:29
    handLandmarkerRef,   \* useMediaPipeTracking.js:30
    initPc,              \* the runs of initializeMediaPipe in flight: for
                         \* each the await it stands at and its settings
    rafQueue,            \* callbacks registered with requestAnimationFrame
    animationFrameRef,   \* "null" | "live" | "stale"
    effectPending,       \* start/stop effect has to run (its deps changed)
    vrm,                 \* "null" | "loaded"
    expr,                \* rig: expression name -> last weight set
    bones,               \* rig: bone name -> last rotation written
    clock,               \* Date.now(), hundredths of a second
    lastTick,            \* history: what the last run of predict did
    lastRun,             \* history: what the last applier run did
    trackingStatus,      \* App.jsx:55   debugData.trackingStatus
    lastError,           \* App.jsx:59   debugData.lastError
    lastLog,             \* App.jsx:66   the newest entry of logs
    isMicEnabled,        \* App.jsx:14   useState(false)
    micQueue,            \* updateLevel callbacks registered with
                         \* requestAnimationFrame (App.jsx:184)
    fpsRef,              \* App.jsx:74   fpsRef.current.lastTime, hundredths
                         \* of a second
    cameraPending,       \* App.jsx:148  calls of toggleTracking that await
                         \* getUserMedia
    toggleOdd,           \* history: toggleTracking was called an odd
                         \* number of times
    renderLoop           \* part_000:241-251  animate: the vrm of its closure,
                         \* and what its last iteration did

vars == << isTracking, srcObject, videoReady, settings, micLevel, faceObj,
           handsObj, pose, detectionStatus, faceLandmarkerRef,
           poseLandmarkerRef, handLandmarkerRef, initPc, rafQueue,
           animationFrameRef, effectPending, vrm, expr,
           bones, clock, lastTick, lastRun, trackingStatus, lastError,
           lastLog, isMicEnabled, micQueue, fpsRef, cameraPending,
           toggleOdd, renderLoop >>

trackerVars == << isTracking, srcObject, videoReady, faceObj, handsObj, pose,
                  detectionStatus, faceLandmarkerRef, poseLandmarkerRef,
                  handLandmarkerRef, initPc, rafQueue, animationFrameRef,
                  effectPending, lastTick >>

rigVars == << expr, bones, lastRun >>

hostVars == << trackingStatus, lastError, lastLog >>

micVars == << isMicEnabled, micQueue >>

cameraVars == << cameraPending, toggleOdd >>

-----------------------------------------------------------------------------
(* Points, rotations, frames                                               *)

Pt(px, py) == [x |-> px, y |-> py]

Rot(rx, ry, rz) == [x |-> rx, y |-> ry, z |-> rz]

\* useMediaPipeTracking.js:7
ZeroRotation == Rot(0, 0, 0)

\* useMediaPipeTracking.js:9   blendShapes: {}
EmptyBlendShapes == [n \in {} |-> 0]

\* useMediaPipeTracking.js:6-10 (position is never read or written again)
InitialFace == [rotation |-> ZeroRotation, blendShapes |-> EmptyBlendShapes]

\* useMediaPipeTracking.js:11-15
InitialPose ==
    [shoulders |-> [left |-> Pt(0, 0), right |-> Pt(0, 0)],
     elbows    |-> [left |-> Pt(0, 0), right |-> Pt(0, 0)],
     wrists    |-> [left |-> Pt(0, 0), right |-> Pt(0, 0)]]

\* useMediaPipeTracking.js:17-18
NoHand == [landmarks |-> << >>, detected |-> FALSE]

\* useMediaPipeTracking.js:16-19
InitialHands == [left |-> NoHand, right |-> NoHand]

\* useMediaPipeTracking.js:22-26
InitialDetectionStatus ==
    [faceDetected |-> FALSE, poseDetected |-> FALSE,
     handsDetected |-> [left |-> FALSE, right |-> FALSE]]

Sides == {"left", "right"}

-----------------------------------------------------------------------------
(* Arithmetic helpers                                                      *)

\* Math.atan2(dy, dx) * 180 / PI, on the eight compass directions and at the
\* origin, where it is an exact number of degrees.  Every sample of the model
\* lies on one of them; any other argument stops TLC.
Atan2Deg(dy, dx) ==
    CASE dy = 0 /\ dx >= 0        -> 0
      [] dy = 0 /\ dx < 0         -> 180
      [] dx = 0 /\ dy > 0         -> 90
      [] dx = 0 /\ dy < 0         -> -90
      [] dy = dx /\ dx > 0        -> 45
      [] dy = -dx /\ dx > 0       -> -45
      [] dy = -dx /\ dx < 0       -> 135
      [] dy = dx /\ dx < 0        -> -135

\* lerp with the base term lost.
lerpNoBase(a, b, t) == ((b - a) * t) \div 10

\* useMediaPipeTracking.js:237-239
\* lerp(a, b, t) = a + (b - a) * t with t in tenths.  It is exact whenever
\* (b - a) * t is a multiple of 10.
lerp(a, b, t) == a + ((b - a) * t) \div 10

Max(a, b) == IF a >= b THEN a ELSE b

\* blendShapes.name || 0
Score(bs, name) == IF name \in DOMAIN bs THEN bs[name] ELSE 0

-----------------------------------------------------------------------------
(* What the detectors can return (external, black box)                     *)

MaxTurn == 1

\* A face landmark list; only indices 1 (nose tip), 33 and 263 (eyes) are
\* read.  k = 0 is the face of the spec's scenario: nose (0.5, 0.5), eyes
\* (0.45, 0.5) and (0.55, 0.5).  k >= 1 turns and tilts the head: the nose
\* moves right and down, the eye line tilts by 45 degrees.
FaceLandmarks(k) ==
    IF k = 0
    THEN [noseTip |-> Pt(60, 60), leftEye |-> Pt(54, 60), rightEye |-> Pt(66, 60)]
    ELSE [noseTip |-> Pt(60 + 20 * k, 60 + 6 * k),
          leftEye |-> Pt(54, 54), rightEye |-> Pt(66, 66)]

FaceLandmarkSamples == { FaceLandmarks(k) : k \in 0..MaxTurn }

\* faceBlendshapes[0].categories as a mapping categoryName -> score (tenths).
BlendTalk ==
    [jawOpen |-> 2, eyeBlinkLeft |-> 0, eyeBlinkRight |-> 8,
     mouthSmileLeft |-> 8, mouthSmileRight |-> 8, browInnerUp |-> 3,
     browDownLeft |-> 6, browDownRight |-> 6]

BlendBlink ==
    [jawOpen |-> 0, eyeBlinkLeft |-> 10, eyeBlinkRight |-> 10,
     mouthSmileLeft |-> 0, mouthSmileRight |-> 0, browInnerUp |-> 0,
     browDownLeft |-> 0, browDownRight |-> 0]

BlendSamples == {BlendTalk, BlendBlink}

\* A result of kind "short" is a detection whose landmark list lacks an index
\* the code reads (face: 1, 33 or 263; pose: 11..16): landmarks[i] is
\* undefined there and reading its .x throws a TypeError inside the try.
ThrowsInTry(kind) == kind \in {"throw", "short"}

NoFaceResult(kind) ==
    [kind |-> kind, landmarks |-> FaceLandmarks(0), hasBlend |-> FALSE,
     blend |-> EmptyBlendShapes]

\* What faceLandmarker.detectForVideo does: throws, returns no face, or
\* returns a face without or with a blend-shape list out of `blends`.
FaceResults(blends) ==
    {NoFaceResult("throw"), NoFaceResult("none")}
    \cup [kind : {"face"}, landmarks : FaceLandmarkSamples, hasBlend : {FALSE},
          blend : {EmptyBlendShapes}]
    \cup [kind : {"face"}, landmarks : FaceLandmarkSamples, hasBlend : {TRUE},
          blend : blends]

\* Arms hanging: elbows below the shoulders, wrists below the elbows
\* (image y grows downwards).
PoseArmsDown ==
    [shoulders |-> [left |-> Pt(70, 40), right |-> Pt(50, 40)],
     elbows    |-> [left |-> Pt(70, 60), right |-> Pt(50, 60)],
     wrists    |-> [left |-> Pt(70, 80), right |-> Pt(50, 80)]]

\* Left arm raised sideways, right arm hanging.
PoseLeftArmOut ==
    [shoulders |-> [left |-> Pt(70, 40), right |-> Pt(50, 40)],
     elbows    |-> [left |-> Pt(90, 40), right |-> Pt(50, 60)],
     wrists    |-> [left |-> Pt(90, 20), right |-> Pt(50, 80)]]

\* What poseLandmarker.detectForVideo does.
PoseResults(poses) ==
    {[kind |-> "throw", pose |-> InitialPose],
     [kind |-> "none", pose |-> InitialPose]}
    \cup [kind : {"pose"}, pose : poses]

\* A hand landmark list: index 0 is the wrist, index 9 the middle-finger
\* knuckle (Sequences count from 1).
HandLandmarks(wrist, middle) == [i \in 1..10 |-> IF i = 10 THEN middle ELSE wrist]

HandUp == HandLandmarks(Pt(60, 90), Pt(60, 60))

\* What handLandmarker.detectForVideo does, as the forEach over handedness
\* sees it: for each side the landmark list reported under that label,
\* << >> when none is.
HandResults(lists) ==
    {[kind |-> "throw", left |-> << >>, right |-> << >>]}
    \cup [kind : {"hands"}, left : {<< >>} \cup lists, right : {<< >>} \cup lists]

NoPoseResult(kind) == [kind |-> kind, pose |-> InitialPose]

NoHandsResult(kind) == [kind |-> kind, left |-> << >>, right |-> << >>]

\* The detector results of one tick: one result per detector.  A result
\* that the try block never looks at (the detector is not called, or an
\* earlier call threw) is fixed to "no detection", so that each course of a
\* tick is listed once.
TickInputs(faces, poses, hands, faceCalled, poseCalled, handCalled) ==
    { d \in [face : IF faceCalled THEN faces ELSE {NoFaceResult("none")},
             pose : IF poseCalled THEN poses ELSE {NoPoseResult("none")},
             hand : IF handCalled THEN hands ELSE {NoHandsResult("hands")}] :
        /\ ThrowsInTry(d.face.kind) =>
              d.pose = NoPoseResult("none") /\ d.hand = NoHandsResult("hands")
        /\ ThrowsInTry(d.pose.kind) => d.hand = NoHandsResult("hands") }

-----------------------------------------------------------------------------
(* predict: one tick of the tracking loop                                  *)

\* useMediaPipeTracking.js:123-144 with the mirrorMode test dropped.
RawRotationUnmirrored(lm, mirrorMode) ==
    LET yaw   == 2 * (lm.noseTip.x - 60)
        pitch == 2 * lm.noseTip.y - (lm.leftEye.y + lm.rightEye.y)
        roll  == 4 * Atan2Deg(lm.rightEye.y - lm.leftEye.y,
                              lm.rightEye.x - lm.leftEye.x)
    IN  Rot(pitch, yaw, roll)

\* useMediaPipeTracking.js:123-144   head rotation from the landmarks,
\* quarter degrees: yaw = (N.x - 0.5) * 60, pitch = (N.y - eyeCenter.y) * 60,
\* roll = atan2(R.y - L.y, R.x - L.x) in degrees; negated under mirrorMode.
RawRotation(lm, mirrorMode) ==
    LET yaw   == 2 * (lm.noseTip.x - 60)
        pitch == 2 * lm.noseTip.y - (lm.leftEye.y + lm.rightEye.y)
        roll  == 4 * Atan2Deg(lm.rightEye.y - lm.leftEye.y,
                              lm.rightEye.x - lm.leftEye.x)
    IN  IF mirrorMode THEN Rot(-pitch, -yaw, -roll) ELSE Rot(pitch, yaw, roll)

\* useMediaPipeTracking.js:112 and 202-204.  newTrackingData is a shallow
\* copy, so newTrackingData.face and trackingData.face are one object: the
\* read of trackingData.face.rotation at line 202 sees the rotation stored
\* at line 140 (`current`), not the one the tick started with (`before`).
PreviousRotationRead(before, current) == current

\* useMediaPipeTracking.js:199-205 keeping the rotation the tick started
\* with when trackingSmoothing is 0.
ApplySmoothingHeld(before, current, smooth) ==
    IF smooth > 0
    THEN LET prev == PreviousRotationRead(before, current)
         IN  Rot(lerp(prev.x, current.x, 10 - smooth),
                 lerp(prev.y, current.y, 10 - smooth),
                 lerp(prev.z, current.z, 10 - smooth))
    ELSE before

\* useMediaPipeTracking.js:199-205
ApplySmoothing(before, current, smooth) ==
    IF smooth > 0
    THEN LET prev == PreviousRotationRead(before, current)
         IN  Rot(lerp(prev.x, current.x, 10 - smooth),
                 lerp(prev.y, current.y, 10 - smooth),
                 lerp(prev.z, current.z, 10 - smooth))
    ELSE current

\* useMediaPipeTracking.js:119-154   the face object after face tracking saw
\* the result r (kind "face"): rotation replaced, blendShapes replaced only
\* when the detector sent a blend-shape list.
FaceAfterDetection(face, r, mirrorMode) ==
    [rotation    |-> RawRotation(r.landmarks, mirrorMode),
     blendShapes |-> IF r.hasBlend THEN r.blend ELSE face.blendShapes]

\* useMediaPipeTracking.js:187-196   the hands object after the forEach.
HandsAfterDetection(hands, r) ==
    [s \in Sides |->
        IF r[s] # << >> THEN [landmarks |-> r[s], detected |-> TRUE]
        ELSE hands[s]]

\* useMediaPipeTracking.js:111-212   the body of the try block, run by the
\* closure c = (isTracking, settings, trackingData) on the detector results
\* d.  `threw` tells a detector call threw, or a landmark that is not there
\* was read (:136-137, :168-177): nothing is published then, but what was
\* stored in the shared face object before the throw stays.
TickResult(c, d) ==
    LET s          == c.settings
        faceCalled == s.faceTrackingEnabled /\ faceLandmarkerRef # "null"
        faceThrew  == faceCalled /\ ThrowsInTry(d.face.kind)
        faceSeen   == faceCalled /\ d.face.kind = "face"
        face1      == IF faceSeen
                      THEN FaceAfterDetection(faceObj, d.face, s.mirrorMode)
                      ELSE faceObj
        poseCalled == ~faceThrew /\ s.bodyTrackingEnabled
                      /\ poseLandmarkerRef # "null"
        poseThrew  == poseCalled /\ ThrowsInTry(d.pose.kind)
        poseSeen   == poseCalled /\ d.pose.kind = "pose"
        handCalled == ~faceThrew /\ ~poseThrew /\ s.handTrackingEnabled
                      /\ handLandmarkerRef # "null"
        handThrew  == handCalled /\ d.hand.kind = "throw"
        handsSeen  == handCalled /\ d.hand.kind = "hands"
        threw      == faceThrew \/ poseThrew \/ handThrew
        hands1     == IF handsSeen THEN HandsAfterDetection(handsObj, d.hand)
                      ELSE handsObj
        face2      == IF threw THEN face1
                      ELSE [face1 EXCEPT !.rotation =
                              ApplySmoothing(faceObj.rotation, face1.rotation,
                                             s.trackingSmoothing)]
    IN  [threw  |-> threw,
         face   |-> face2,
         hands  |-> hands1,
         pose   |-> IF poseSeen THEN d.pose.pose ELSE c.pose,
         status |-> [faceDetected  |-> faceSeen,
                     poseDetected  |-> poseSeen,
                     handsDetected |->
                        [left  |-> handsSeen /\ d.hand.left # << >>,
                         right |-> handsSeen /\ d.hand.right # << >>]],
         raw    |-> IF faceSeen THEN face1.rotation ELSE ZeroRotation,
         landmarks |-> IF faceSeen THEN d.face.landmarks ELSE FaceLandmarks(0),
         closed |-> (IF faceCalled /\ faceLandmarkerRef = "closed"
                     THEN {"face"} ELSE {})
                    \cup (IF poseCalled /\ poseLandmarkerRef = "closed"
                          THEN {"pose"} ELSE {})
                    \cup (IF handCalled /\ handLandmarkerRef = "closed"
                          THEN {"hand"} ELSE {}),
         missing |-> (IF faceCalled /\ d.face.kind = "short" THEN {"face"} ELSE {})
                     \cup (IF poseCalled /\ d.pose.kind = "short"
                           THEN {"pose"} ELSE {})
                     \cup (IF handsSeen /\ \E sd \in Sides :
                                             Len(d.hand[sd]) \in 1..9
                           THEN {"hand"} ELSE {}),
         blendSeen |-> faceSeen /\ d.face.hasBlend]

\* The closure React builds at the current render (useCallback deps, :216).
CurrentClosure == [isTracking |-> isTracking, settings |-> settings, pose |-> pose]

\* useMediaPipeTracking.js:103 without the test of the video element.
TickRunsUnready(c) == c.isTracking

\* useMediaPipeTracking.js:103   the negation of the early-return test:
\* isTracking of the closure, and a video element with readyState >= 2.
TickRuns(c) == c.isTracking /\ videoReady

\* The detector results predict can meet when closure c runs it.
DetectionsFor(c, faces, poses, hands) ==
    LET ran == TickRuns(c)
    IN  TickInputs(faces, poses, hands,
            ran /\ c.settings.faceTrackingEnabled /\ faceLandmarkerRef # "null",
            ran /\ c.settings.bodyTrackingEnabled /\ poseLandmarkerRef # "null",
            ran /\ c.settings.handTrackingEnabled /\ handLandmarkerRef # "null")

\* useMediaPipeTracking.js:215 (and :104) with the registration left out.
RescheduleDropped(q, c) == q

\* useMediaPipeTracking.js:215 (and :104)
\* animationFrameRef.current = requestAnimationFrame(predict): the running
\* closure c is put behind the callbacks q that are waiting.
Reschedule(q, c) == Append(q, c)

\* useMediaPipeTracking.js:102-216   predict, run by closure c.  The caller
\* says what rafQueue was before the call (q) and who it is (via: "effect"
\* for the start/stop effect, "frame" for the display refresh); predict
\* always ends by registering itself again (:104, :215).  A published frame
\* renders VTuberApp again with a new predict, so the start/stop effect has
\* to run; an effect that was waiting when a display refresh ran predict is
\* still waiting afterwards.
Predict(c, d, q, via) ==
    /\ rafQueue' = Reschedule(q, c)
    /\ animationFrameRef' = "live"
    /\ IF ~TickRuns(c)
       THEN /\ UNCHANGED << faceObj, handsObj, pose, detectionStatus >>
            /\ effectPending' = (via = "frame" /\ effectPending)
            /\ lastTick' = [outcome |-> "noop", status |-> InitialDetectionStatus,
                            blendSeen |-> FALSE, raw |-> ZeroRotation,
                            landmarks |-> FaceLandmarks(0),
                            missing |-> {}, closed |-> {},
                            smooth |-> c.settings.trackingSmoothing,
                            mirror |-> c.settings.mirrorMode,
                            via |-> via, turn |-> 1 - lastTick.turn]
       ELSE \E r \in {TickResult(c, d)} :
                /\ faceObj' = r.face
                /\ lastTick' = [outcome |-> IF r.threw THEN "threw" ELSE "published",
                                status |-> r.status,
                                blendSeen |-> r.blendSeen,
                                raw |-> r.raw,
                                landmarks |-> r.landmarks,
                                missing |-> r.missing,
                                closed |-> r.closed,
                                smooth |-> c.settings.trackingSmoothing,
                                mirror |-> c.settings.mirrorMode,
                                via |-> via, turn |-> 1 - lastTick.turn]
                /\ IF r.threw
                   THEN /\ UNCHANGED << handsObj, pose, detectionStatus >>
                        /\ effectPending' = (via = "frame" /\ effectPending)
                   ELSE /\ handsObj' = r.hands
                        /\ pose' = r.pose
                        /\ detectionStatus' = r.status
                        /\ effectPending' = TRUE

-----------------------------------------------------------------------------
(* useVRMAnimation: the effect that writes a frame to the rig               *)
(*                                                                         *)
(* The rig is complete: vrm.humanoid, vrm.expressionManager, vrm.lookAt    *)
(* and every bone the effect asks for exist.  Expression weights are in    *)
(* hundredths.  bones.head is the rotation times trackingSpeed (degToRad   *)
(* only changes the unit), bones.chest is the phase 2 * time, in           *)
(* hundredths of a radian, whose sine times 0.02 is written (0 at rest).    *)
(* The model root transform (part_000:8-13) is copied from      *)
(* modelTransform, which no action here changes, and is left out.          *)

MaxSeconds == 4

\* part_000:37   setValue('blink', (blinkLeft + blinkRight) / 2), written as
\* the sum of both instead.
BlinkBothSummed(blinkLeft, blinkRight) == (blinkLeft + blinkRight) * 10

\* part_000:37   (blinkLeft + blinkRight) / 2, tenths in, hundredths out.
BlinkBoth(blinkLeft, blinkRight) == (blinkLeft + blinkRight) * 5

\* part_000:44   with the microphone added to the tracked mouth instead of
\* being a floor under it.
MouthOpenAdded(trackingMouth, micMouth, sensitivity) ==
    (trackingMouth + micMouth) * sensitivity

\* part_000:44   Math.max(trackingMouth, micMouth) * lipSyncSensitivity,
\* tenths times tenths: hundredths.
MouthOpen(trackingMouth, micMouth, sensitivity) ==
    Max(trackingMouth, micMouth) * sensitivity

\* part_000:151-154 without the test of the tracked eyeBlinkLeft.
AutoBlinkIgnoringTracking(st, blendShapes, t) ==
    /\ st.blinkEnabled
    /\ LET blinkInterval == IF st.blinkInterval = 0 THEN 4 ELSE st.blinkInterval
       IN  (t \div 100) % blinkInterval = 0 /\ t % 100 < 15

\* part_000:151-154   the auto-blink test at time t (hundredths of a second):
\* blinkEnabled, eyeBlinkLeft falsy, Math.floor(time) % blinkInterval === 0
\* and time % 1 < 0.15, blinkInterval being 4 when the setting is falsy.
AutoBlinkFires(st, blendShapes, t) ==
    /\ st.blinkEnabled
    /\ Score(blendShapes, "eyeBlinkLeft") = 0
    /\ LET blinkInterval == IF st.blinkInterval = 0 THEN 4 ELSE st.blinkInterval
       IN  (t \div 100) % blinkInterval = 0 /\ t % 100 < 15

\* part_000:28-54   the expression weights after the face block and the
\* auto-blink block (:150-159) ran on blend shapes bs; `reached` tells the
\* effect got as far as the auto-blink block.
ExprAfter(e, st, bs, mic, t, reached) ==
    LET blinkLeft  == Score(bs, "eyeBlinkLeft")
        blinkRight == Score(bs, "eyeBlinkRight")
        face       == st.faceTrackingEnabled
        e1 == IF face /\ st.blinkEnabled
              THEN [e EXCEPT !.blinkLeft = blinkLeft * 10,
                             !.blinkRight = blinkRight * 10,
                             !.blink = BlinkBoth(blinkLeft, blinkRight)]
              ELSE e
        e2 == IF face /\ st.lipSyncEnabled
              THEN [e1 EXCEPT !.aa = MouthOpen(Score(bs, "jawOpen"), mic,
                                               st.lipSyncSensitivity),
                              !.happy = (Score(bs, "mouthSmileLeft")
                                         + Score(bs, "mouthSmileRight")) * 10]
              ELSE e1
        e3 == IF face
              THEN [e2 EXCEPT !.surprised = Score(bs, "browInnerUp") * 10,
                              !.angry = (Score(bs, "browDownLeft")
                                         + Score(bs, "browDownRight")) * 10]
              ELSE e2
    IN  IF reached /\ AutoBlinkFires(st, bs, t)
        THEN [e3 EXCEPT !.blink = 100] ELSE e3

\* part_000:77-81, 86-90   upper arm: atan2(elbow - shoulder) - PI / 2.
UpperArmAngle(p, side) ==
    Atan2Deg(p.elbows[side].y - p.shoulders[side].y,
             p.elbows[side].x - p.shoulders[side].x) - 90

\* part_000:96-100, 105-109   lower arm: atan2(wrist - elbow).
LowerArmAngle(p, side) ==
    Atan2Deg(p.wrists[side].y - p.elbows[side].y,
             p.wrists[side].x - p.elbows[side].x)

\* part_000:118-130, 134-146   hand: atan2(landmarks[9] - landmarks[0]).
HandAngle(landmarks) ==
    Atan2Deg(landmarks[10].y - landmarks[1].y, landmarks[10].x - landmarks[1].x)

HandApplied(st, hands, side) ==
    /\ st.handTrackingEnabled
    /\ hands[side].detected
    /\ Len(hands[side].landmarks) > 0

\* part_000:122-127, 138-143   landmarks[9] of a list shorter than ten is
\* undefined, and middleFinger.y throws a TypeError out of the effect.
HandThrows(st, hands, side) ==
    HandApplied(st, hands, side) /\ Len(hands[side].landmarks) < 10

\* part_000:113-148   the hand block the effect throws in, "none" if it
\* runs to its end.
EffectThrowsAt(st, hands) ==
    IF HandThrows(st, hands, "left") THEN "left"
    ELSE IF HandThrows(st, hands, "right") THEN "right"
    ELSE "none"

\* part_000:16-25, 56-65, 69-148, 161-169   the bones after the effect ran.
BonesAfter(b, st, face, p, hands, t) ==
    LET bs == face.blendShapes
        at == EffectThrowsAt(st, hands)
        b1 == IF st.faceTrackingEnabled
              THEN [b EXCEPT
                      !.head = Rot(face.rotation.x * st.trackingSpeed,
                                   face.rotation.y * st.trackingSpeed,
                                   face.rotation.z * st.trackingSpeed),
                      !.lookAt = Pt((Score(bs, "eyeLookInRight")
                                     - Score(bs, "eyeLookInLeft")) * 2,
                                    (Score(bs, "eyeLookUpLeft")
                                     - Score(bs, "eyeLookDownLeft")) * 2)]
              ELSE b
        b2 == IF st.bodyTrackingEnabled
              THEN [b1 EXCEPT !.leftUpperArm  = UpperArmAngle(p, "left"),
                              !.rightUpperArm = UpperArmAngle(p, "right"),
                              !.leftLowerArm  = LowerArmAngle(p, "left"),
                              !.rightLowerArm = LowerArmAngle(p, "right")]
              ELSE b1
        b3 == IF HandApplied(st, hands, "left") /\ at # "left"
              THEN [b2 EXCEPT !.leftHand = HandAngle(hands.left.landmarks)]
              ELSE b2
        b4 == IF HandApplied(st, hands, "right") /\ at = "none"
              THEN [b3 EXCEPT !.rightHand = HandAngle(hands.right.landmarks)]
              ELSE b3
    IN  IF st.idleAnimationEnabled /\ at = "none"
        THEN [b4 EXCEPT !.chest = 2 * t] ELSE b4

\* The names of the expressions and bones one run of the effect writes.
WrittenBy(st, face, hands, t) ==
    (IF st.faceTrackingEnabled
     THEN {"head", "surprised", "angry", "lookAt"} ELSE {})
    \cup (IF st.faceTrackingEnabled /\ st.blinkEnabled
          THEN {"blinkLeft", "blinkRight", "blink"} ELSE {})
    \cup (IF st.faceTrackingEnabled /\ st.lipSyncEnabled
          THEN {"aa", "happy"} ELSE {})
    \cup (IF st.bodyTrackingEnabled
          THEN {"leftUpperArm", "rightUpperArm", "leftLowerArm", "rightLowerArm"}
          ELSE {})
    \cup (IF HandApplied(st, hands, "left") /\ EffectThrowsAt(st, hands) # "left"
          THEN {"leftHand"} ELSE {})
    \cup (IF HandApplied(st, hands, "right") /\ EffectThrowsAt(st, hands) = "none"
          THEN {"rightHand"} ELSE {})
    \cup (IF EffectThrowsAt(st, hands) = "none"
             /\ AutoBlinkFires(st, face.blendShapes, t)
          THEN {"blink"} ELSE {})
    \cup (IF EffectThrowsAt(st, hands) = "none" /\ st.idleAnimationEnabled
          THEN {"chest"} ELSE {})

\* part_000:8-170   the body of the effect of useVRMAnimation past the
\* `if (!vrm) return`, for the props st (settings), face, p (pose), hands,
\* mic, at wall-clock time clock.
EffectBody(st, face, p, hands, mic) ==
    /\ expr' = ExprAfter(expr, st, face.blendShapes, mic, clock,
                         EffectThrowsAt(st, hands) = "none")
    /\ bones' = BonesAfter(bones, st, face, p, hands, clock)
    /\ lastRun' = [t |-> clock,
                   autoBlink |-> /\ EffectThrowsAt(st, hands) = "none"
                                 /\ AutoBlinkFires(st, face.blendShapes, clock),
                   wrote |-> WrittenBy(st, face, hands, clock),
                   error |-> EffectThrowsAt(st, hands) # "none"]

\* part_000:5-171   the effect run in a render whose vrm is the loaded rig.
ApplyFrame(st, face, p, hands, mic) ==
    /\ vrm = "loaded"
    /\ EffectBody(st, face, p, hands, mic)

-----------------------------------------------------------------------------
(* Settings (App.jsx:33-50) and the host application                       *)

\* App.jsx:33-46   trackingSpeed, lipSyncSensitivity and trackingSmoothing in
\* tenths.
DefaultSettings ==
    [trackingSmoothing    |-> 5,
     trackingSpeed        |-> 10,
     faceTrackingEnabled  |-> TRUE,
     bodyTrackingEnabled  |-> TRUE,
     handTrackingEnabled  |-> TRUE,
     lipSyncEnabled       |-> TRUE,
     lipSyncSensitivity   |-> 7,
     blinkEnabled         |-> TRUE,
     blinkInterval        |-> 4,
     idleAnimationEnabled |-> TRUE,
     mirrorMode           |-> TRUE,
     showFPS              |-> TRUE]

\* Values the trackingSmoothing slider (App.jsx:458, 0..1 by 0.1) is moved to.
SmoothingValues == {0, 5}

\* The modality switches the tracking hook is mounted with (App.jsx:433-435):
\* all on, or one of them off.
TrackerInitSettings ==
    { DefaultSettings,
      [DefaultSettings EXCEPT !.faceTrackingEnabled = FALSE],
      [DefaultSettings EXCEPT !.bodyTrackingEnabled = FALSE],
      [DefaultSettings EXCEPT !.handTrackingEnabled = FALSE] }

\* lastTick before predict ever ran.  Its fields: outcome ("none", "noop":
\* the early return of :103-106, "threw", "published"), status (what the
\* detectors reported in that run), blendSeen (the face detector sent a
\* blend-shape list), raw (the unsmoothed rotation of :140-144), landmarks
\* (the face landmarks it was computed from), missing (the modalities whose
\* landmark list lacked an index the code reads), closed (the landmarkers
\* on which detectForVideo was called after close()), smooth and mirror (the
\* trackingSmoothing and mirrorMode of the closure that ran), via (who called
\* predict: the start/stop effect or the display refresh), turn (flips at
\* every run).
NoTick ==
    [outcome |-> "none", status |-> InitialDetectionStatus, blendSeen |-> FALSE,
     raw |-> ZeroRotation, landmarks |-> FaceLandmarks(0), missing |-> {},
     closed |-> {}, smooth |-> 5,
     mirror |-> TRUE, via |-> "effect", turn |-> 0]

\* lastRun before the effect ever ran.  Its fields: t (Date.now() of the
\* run), autoBlink (the auto-blink block set 'blink' to 1), wrote (the
\* expressions and bones written), error (the effect threw).
NoRun == [t |-> -1, autoBlink |-> FALSE, wrote |-> {}, error |-> FALSE]

\* Rig at rest: every expression weight 0, every normalised bone unrotated.
RestExpr ==
    [blink |-> 0, blinkLeft |-> 0, blinkRight |-> 0, aa |-> 0, happy |-> 0,
     surprised |-> 0, angry |-> 0]

RestBones ==
    [head |-> ZeroRotation, chest |-> 0, leftUpperArm |-> 0, rightUpperArm |-> 0,
     leftLowerArm |-> 0, rightLowerArm |-> 0, leftHand |-> 0, rightHand |-> 0,
     lookAt |-> Pt(0, 0)]

\* App.jsx:69-72   addLog: the entry put at the end of logs (its timestamp
\* left out).  The messages are named in English.
LogEntry(message, type) == [message |-> message, type |-> type]

\* App.jsx:66   logs is empty.
NoLog == LogEntry("", "none")

\* part_000:241-251   animate was called by the effect of :188-257, which
\* runs once, after the first render (its dependency canvasRef never
\* changes): the function closes over the vrm of that render, which is
\* null (:180).  Its fields: vrm (the vrm of the closure), updated (the last
\* iteration called vrm.update), turn (flips at every iteration).
LoopStarted(closureVrm) == [vrm |-> closureVrm, updated |-> FALSE, turn |-> 0]

\* Runs of initializeMediaPipe that can be in flight together.
MaxInits == 1

\* useMediaPipeTracking.js:36-38   a run of initializeMediaPipe that has just
\* been called in a render with settings st: it awaits the fileset.
InitRun(st) == [pc |-> "vision", settings |-> st]

RemoveAt(q, i) == SubSeq(q, 1, i - 1) \o SubSeq(q, i + 1, Len(q))

\* The state after the first render of VTuberApp and its initialisation
\* effect (useMediaPipeTracking.js:86), before any other effect ran.
MountInit ==
    /\ isTracking = FALSE
    /\ srcObject = FALSE
    /\ videoReady = FALSE
    /\ settings = DefaultSettings
    /\ micLevel = 0
    /\ faceObj = InitialFace
    /\ handsObj = InitialHands
    /\ pose = InitialPose
    /\ detectionStatus = InitialDetectionStatus
    /\ faceLandmarkerRef = "null"
    /\ poseLandmarkerRef = "null"
    /\ handLandmarkerRef = "null"
    /\ initPc = << InitRun(DefaultSettings) >>
    /\ rafQueue = << >>
    /\ animationFrameRef = "null"
    /\ effectPending = TRUE
    /\ vrm = "null"
    /\ expr = RestExpr
    /\ bones = RestBones
    /\ clock = 0
    /\ lastTick = NoTick
    /\ lastRun = NoRun
    /\ trackingStatus = "idle"
    /\ lastError = "null"
    /\ lastLog = NoLog
    /\ isMicEnabled = FALSE
    /\ micQueue = << >>
    /\ fpsRef = 0
    /\ cameraPending = 0
    /\ renderLoop = LoopStarted("null")
    /\ toggleOdd = FALSE

\* The tracking hook once initializeMediaPipe has returned: the hook was
\* mounted with one of TrackerInitSettings and a landmarker exists for each
\* enabled modality; tracking has not been started yet.  No VRM model is
\* loaded, so useVRMAnimation returns at once (part_000:6).
Init ==
    /\ isTracking = FALSE
    /\ srcObject = FALSE
    /\ videoReady = FALSE
    /\ settings \in TrackerInitSettings
    /\ micLevel = 0
    /\ faceObj = InitialFace
    /\ handsObj = InitialHands
    /\ pose = InitialPose
    /\ detectionStatus = InitialDetectionStatus
    /\ faceLandmarkerRef = IF settings.faceTrackingEnabled THEN "open" ELSE "null"
    /\ poseLandmarkerRef = IF settings.bodyTrackingEnabled THEN "open" ELSE "null"
    /\ handLandmarkerRef = IF settings.handTrackingEnabled THEN "open" ELSE "null"
    /\ initPc = << >>
    /\ rafQueue = << >>
    /\ animationFrameRef = "null"
    /\ effectPending = TRUE
    /\ vrm = "null"
    /\ expr = RestExpr
    /\ bones = RestBones
    /\ clock = 0
    /\ lastTick = NoTick
    /\ lastRun = NoRun
    /\ trackingStatus = "idle"
    /\ lastError = "null"
    /\ lastLog = NoLog
    /\ isMicEnabled = FALSE
    /\ micQueue = << >>
    /\ fpsRef = 0
    /\ cameraPending = 0
    /\ renderLoop = LoopStarted("null")
    /\ toggleOdd = FALSE

\* useMediaPipeTracking.js:36-84   initializeMediaPipe, one await at a time:
\* the run initPc[i] gets the value it awaits.  It reads the settings of the
\* render its effect ran in, and stores each landmarker it created in the
\* ref, whatever the ref held.
InitializeMediaPipeStep(i) ==
    /\ i \in 1..Len(initPc)
    /\ \E run \in {initPc[i]} :
         CASE run.pc = "vision" ->
                /\ initPc' = [initPc EXCEPT ![i].pc = "face"]
                /\ UNCHANGED << faceLandmarkerRef, poseLandmarkerRef,
                                handLandmarkerRef >>
           [] run.pc = "face" ->
                /\ initPc' = [initPc EXCEPT ![i].pc = "pose"]
                /\ faceLandmarkerRef' =
                      IF run.settings.faceTrackingEnabled THEN "open"
                      ELSE faceLandmarkerRef
                /\ UNCHANGED << poseLandmarkerRef, handLandmarkerRef >>
           [] run.pc = "pose" ->
                /\ initPc' = [initPc EXCEPT ![i].pc = "hand"]
                /\ poseLandmarkerRef' =
                      IF run.settings.bodyTrackingEnabled THEN "open"
                      ELSE poseLandmarkerRef
                /\ UNCHANGED << faceLandmarkerRef, handLandmarkerRef >>
           [] run.pc = "hand" ->
                /\ initPc' = RemoveAt(initPc, i)
                /\ handLandmarkerRef' =
                      IF run.settings.handTrackingEnabled THEN "open"
                      ELSE handLandmarkerRef
                /\ UNCHANGED << faceLandmarkerRef, poseLandmarkerRef >>
    /\ UNCHANGED << isTracking, srcObject, videoReady, settings, micLevel,
                    faceObj, handsObj, pose, detectionStatus, rafQueue,
                    animationFrameRef, effectPending, vrm, clock, lastTick >>
    /\ UNCHANGED rigVars
    /\ UNCHANGED << hostVars, micVars, fpsRef, cameraVars, renderLoop >>

\* useMediaPipeTracking.js:81-83   the call awaited by run initPc[i] rejects:
\* the catch logs, and the landmarkers the run has not created are not
\* stored.
InitializeMediaPipeFails(i) ==
    /\ i \in 1..Len(initPc)
    /\ initPc' = RemoveAt(initPc, i)
    /\ UNCHANGED << isTracking, srcObject, videoReady, settings, micLevel,
                    faceObj, handsObj, pose, detectionStatus,
                    faceLandmarkerRef, poseLandmarkerRef, handLandmarkerRef,
                    rafQueue, animationFrameRef, effectPending, vrm, clock,
                    lastTick >>
    /\ UNCHANGED rigVars
    /\ UNCHANGED << hostVars, micVars, fpsRef, cameraVars, renderLoop >>

\* landmarker.close() on what a ref holds (:89-97).
Closed(ref) == IF ref = "null" THEN "null" ELSE "closed"

\* The modality checkboxes (App.jsx:433-435).
Modalities == {"faceTrackingEnabled", "bodyTrackingEnabled", "handTrackingEnabled"}

\* App.jsx:432-448   a modality checkbox is flipped.  Its setting is a
\* dependency of the initialisation effect (useMediaPipeTracking.js:99): the
\* cleanup of :88-98 calls close() on every landmarker a ref holds and
\* leaves the refs as they are, then the effect starts initializeMediaPipe
\* again, beside the runs still in flight.  predict is a new function
\* (:216), so the start/stop effect has to run.
ToggleModality(key) ==
    /\ Len(initPc) < MaxInits
    /\ settings' = [settings EXCEPT ![key] = ~settings[key]]
    /\ faceLandmarkerRef' = Closed(faceLandmarkerRef)
    /\ poseLandmarkerRef' = Closed(poseLandmarkerRef)
    /\ handLandmarkerRef' = Closed(handLandmarkerRef)
    /\ initPc' = Append(initPc, InitRun(settings'))
    /\ effectPending' = TRUE
    /\ UNCHANGED << isTracking, srcObject, videoReady, micLevel, faceObj,
                    handsObj, pose, detectionStatus, rafQueue,
                    animationFrameRef, vrm, clock, lastTick >>
    /\ IF vrm = "loaded"
       THEN ApplyFrame(settings', faceObj, pose, handsObj, micLevel)
       ELSE UNCHANGED rigVars
    /\ UNCHANGED << hostVars, micVars, fpsRef, cameraVars, renderLoop >>

\* VTuberApp rendered again: the effect of useVRMAnimation runs, on a loaded
\* model, with the props of the new render (App.jsx:89; part_000:6).
AppRendered ==
    IF vrm = "loaded"
    THEN ApplyFrame(settings, faceObj, pose, handsObj, micLevel')
    ELSE UNCHANGED rigVars

\* App.jsx:277-284   the effect that runs when isTracking, isMicEnabled,
\* micLevel, lipSyncEnabled or the frame changed: with lip sync and the
\* microphone on it sets debugData.trackingStatus to 'running' or 'idle'
\* after isTracking; `status` is what the handler of the same render set.
StatusAfterMicEffect(status, tracking, mic, lipSync) ==
    IF lipSync /\ mic
    THEN (IF tracking THEN "running" ELSE "idle")
    ELSE status

\* What getUserMedia can be rejected with (err.message).
CameraErrors == {"Permission denied", "Requested device not found"}

\* App.jsx:146-157   toggleTracking while stopped, camera granted, and no
\* other call of toggleTracking during the await of :148.
StartTracking ==
    /\ ~isTracking
    /\ srcObject' = TRUE
    /\ isTracking' = TRUE
    /\ trackingStatus' = "running"
    /\ lastLog' = LogEntry("tracking started", "success")
    /\ effectPending' = TRUE
    /\ UNCHANGED << videoReady, settings, micLevel, faceObj, handsObj, pose,
                    detectionStatus, faceLandmarkerRef, poseLandmarkerRef,
                    handLandmarkerRef, initPc, rafQueue, animationFrameRef,
                    vrm, clock, lastTick, lastError >>
    /\ toggleOdd' = ~toggleOdd
    /\ UNCHANGED << micVars, fpsRef, cameraPending, renderLoop >>
    /\ AppRendered

\* App.jsx:146-161 with setIsTracking(true) moved in front of the await.
StartTrackingFailsRunning(msg) ==
    /\ ~isTracking
    /\ isTracking' = TRUE
    /\ effectPending' = TRUE
    /\ lastLog' = LogEntry(msg, "error")
    /\ lastError' = msg
    /\ UNCHANGED << srcObject, videoReady, settings, micLevel,
                    faceObj, handsObj, pose, detectionStatus,
                    faceLandmarkerRef, poseLandmarkerRef, handLandmarkerRef,
                    initPc, rafQueue, animationFrameRef, vrm,
                    clock, lastTick, trackingStatus >>
    /\ toggleOdd' = ~toggleOdd
    /\ UNCHANGED << micVars, fpsRef, cameraPending, renderLoop >>
    /\ AppRendered

\* App.jsx:146-150, 158-161   toggleTracking while stopped, getUserMedia
\* rejected with message msg.
StartTrackingFails(msg) ==
    /\ ~isTracking
    /\ lastLog' = LogEntry(msg, "error")
    /\ lastError' = msg
    /\ UNCHANGED << isTracking, srcObject, videoReady, settings, micLevel,
                    faceObj, handsObj, pose, detectionStatus,
                    faceLandmarkerRef, poseLandmarkerRef, handLandmarkerRef,
                    initPc, rafQueue, animationFrameRef, effectPending, vrm,
                    clock, lastTick, trackingStatus >>
    /\ toggleOdd' = ~toggleOdd
    /\ UNCHANGED << micVars, fpsRef, cameraPending, renderLoop >>
    /\ AppRendered

\* App.jsx:142-145   toggleTracking while running, and the effect of
\* :277-284 of the render that follows.
StopTracking ==
    /\ isTracking
    /\ isTracking' = FALSE
    /\ trackingStatus' = StatusAfterMicEffect("stopped", FALSE, isMicEnabled,
                                              settings.lipSyncEnabled)
    /\ lastLog' = LogEntry("tracking stopped", "info")
    /\ effectPending' = TRUE
    /\ UNCHANGED << srcObject, videoReady, settings, micLevel, faceObj,
                    handsObj, pose, detectionStatus, faceLandmarkerRef,
                    poseLandmarkerRef, handLandmarkerRef, initPc, rafQueue,
                    animationFrameRef, vrm, clock, lastTick, lastError >>
    /\ toggleOdd' = ~toggleOdd
    /\ UNCHANGED << micVars, fpsRef, cameraPending, renderLoop >>
    /\ AppRendered

\* Calls of toggleTracking that can await the camera together.
MaxPending == 2

\* App.jsx:141-151   toggleTracking is called while stopped (the button of
\* the toolbar, or the 't' key of :229-232): it reads isTracking, asks for the
\* camera and awaits.  Nothing is set before the await.
ToggleTrackingAwaits ==
    /\ ~isTracking
    /\ cameraPending < MaxPending
    /\ cameraPending' = cameraPending + 1
    /\ toggleOdd' = ~toggleOdd
    /\ UNCHANGED << settings, micLevel, vrm, clock, fpsRef, renderLoop >>
    /\ UNCHANGED trackerVars
    /\ UNCHANGED rigVars
    /\ UNCHANGED << hostVars, micVars >>

\* App.jsx:152-157   getUserMedia resolves for a call that awaits it: the
\* stream is set and isTracking becomes true, whatever it is by now.  When
\* it was true already, predict stays the same function and the start/stop
\* effect does not run for this render.
ToggleTrackingResumes ==
    /\ cameraPending > 0
    /\ cameraPending' = cameraPending - 1
    /\ srcObject' = TRUE
    /\ isTracking' = TRUE
    /\ trackingStatus' = "running"
    /\ lastLog' = LogEntry("tracking started", "success")
    /\ effectPending' = (effectPending \/ ~isTracking)
    /\ UNCHANGED << videoReady, settings, micLevel, faceObj, handsObj, pose,
                    detectionStatus, faceLandmarkerRef, poseLandmarkerRef,
                    handLandmarkerRef, initPc, rafQueue, animationFrameRef,
                    vrm, clock, lastTick, lastError >>
    /\ UNCHANGED << micVars, fpsRef, toggleOdd, renderLoop >>
    /\ AppRendered

\* App.jsx:179-185   updateLevel, run by a closure whose isMicEnabled is
\* `enabled`, the analyser reading `level`; q are the callbacks waiting.
\* The result: the micLevel stored and the callbacks registered.
UpdateLevel(enabled, level, q) ==
    IF ~enabled
    THEN [micLevel |-> micLevel, micQueue |-> q]
    ELSE [micLevel |-> level, micQueue |-> Append(q, enabled)]

\* The analyser's average over 255, tenths.
MicLevels == {0, 6, 10}

\* App.jsx:171-189   toggleMicrophone while the microphone is off, stream
\* granted: updateLevel is defined and called in the closure of this
\* toggleMicrophone, whose isMicEnabled is false (:167), then the state is
\* set.
EnableMicrophone(level) ==
    /\ ~isMicEnabled
    /\ \E u \in {UpdateLevel(isMicEnabled, level, micQueue)} :
          /\ micLevel' = u.micLevel
          /\ micQueue' = u.micQueue
    /\ isMicEnabled' = TRUE
    /\ lastLog' = LogEntry("microphone enabled", "success")
    /\ trackingStatus' = StatusAfterMicEffect(trackingStatus, isTracking, TRUE,
                                              settings.lipSyncEnabled)
    /\ UNCHANGED << settings, vrm, clock, lastError, fpsRef >>
    /\ UNCHANGED << cameraVars, renderLoop >>
    /\ UNCHANGED trackerVars
    /\ AppRendered

\* App.jsx:171-172, 190-192   getUserMedia({audio}) rejected.
EnableMicrophoneFails(msg) ==
    /\ ~isMicEnabled
    /\ lastLog' = LogEntry(msg, "error")
    /\ UNCHANGED << settings, micLevel, vrm, clock, trackingStatus, lastError >>
    /\ UNCHANGED << micVars, fpsRef, cameraVars, renderLoop >>
    /\ UNCHANGED trackerVars
    /\ AppRendered

\* App.jsx:167-169   toggleMicrophone while the microphone is on.
DisableMicrophone ==
    /\ isMicEnabled
    /\ isMicEnabled' = FALSE
    /\ lastLog' = LogEntry("microphone disabled", "info")
    /\ UNCHANGED << settings, micLevel, vrm, clock, trackingStatus, lastError,
                    micQueue, fpsRef >>
    /\ UNCHANGED << cameraVars, renderLoop >>
    /\ UNCHANGED trackerVars
    /\ AppRendered

\* App.jsx:184   the display refresh runs an updateLevel callback.
MicAnimationFrame(level) ==
    /\ micQueue # << >>
    /\ \E u \in {UpdateLevel(Head(micQueue), level, Tail(micQueue))} :
          /\ micLevel' = u.micLevel
          /\ micQueue' = u.micQueue
    /\ UNCHANGED << settings, vrm, clock, isMicEnabled, fpsRef >>
    /\ UNCHANGED << cameraVars, renderLoop >>
    /\ UNCHANGED hostVars
    /\ UNCHANGED trackerVars
    /\ AppRendered

\* The <video> element (App.jsx:829) reaches readyState >= 2 once it has a
\* stream, and may fall back below it (buffering).
VideoReadyChanges ==
    /\ srcObject
    /\ videoReady' = ~videoReady
    /\ UNCHANGED << isTracking, srcObject, settings, micLevel, faceObj,
                    handsObj, pose, detectionStatus, faceLandmarkerRef,
                    poseLandmarkerRef, handLandmarkerRef, initPc, rafQueue,
                    animationFrameRef, effectPending, vrm, clock, lastTick >>
    /\ UNCHANGED rigVars
    /\ UNCHANGED << hostVars, micVars, fpsRef, cameraVars, renderLoop >>

\* App.jsx:460   the trackingSmoothing slider.
SetTrackingSmoothing(v) ==
    /\ settings.trackingSmoothing # v
    /\ settings' = [settings EXCEPT !.trackingSmoothing = v]
    /\ effectPending' = TRUE
    /\ UNCHANGED << isTracking, srcObject, videoReady, micLevel, faceObj,
                    handsObj, pose, detectionStatus, faceLandmarkerRef,
                    poseLandmarkerRef, handLandmarkerRef, initPc, rafQueue,
                    animationFrameRef, vrm, clock, lastTick >>
    /\ UNCHANGED rigVars
    /\ UNCHANGED << hostVars, micVars, fpsRef, cameraVars, renderLoop >>

\* App.jsx:438-447   the mirrorMode checkbox.
ToggleMirrorMode ==
    /\ settings' = [settings EXCEPT !.mirrorMode = ~settings.mirrorMode]
    /\ effectPending' = TRUE
    /\ UNCHANGED << isTracking, srcObject, videoReady, micLevel, faceObj,
                    handsObj, pose, detectionStatus, faceLandmarkerRef,
                    poseLandmarkerRef, handLandmarkerRef, initPc, rafQueue,
                    animationFrameRef, vrm, clock, lastTick >>
    /\ UNCHANGED rigVars
    /\ UNCHANGED << hostVars, micVars, fpsRef, cameraVars, renderLoop >>

\* cancelAnimationFrame left out of the cleanup and of the stop branch.
CancelRefSkipped(q) == q

\* cancelAnimationFrame(animationFrameRef.current): the callback the ref
\* names is the one registered last; it is removed if still pending.
CancelRef(q) ==
    IF animationFrameRef = "live" THEN SubSeq(q, 1, Len(q) - 1) ELSE q

\* useMediaPipeTracking.js:219-231   the start/stop effect: the cleanup of its
\* previous run, then its body with the closure of the current render.  The
\* detectors answer out of faces, poses and hands.  React runs the effects
\* of a render in the order of the hooks (App.jsx:86, 89): the effect of
\* useVRMAnimation comes after this one, with the props of the same render:
\* its pose, and the face and hands objects that predict writes in place.
StartStopEffect(faces, poses, hands) ==
    /\ effectPending
    /\ IF isTracking
       THEN \E d \in DetectionsFor(CurrentClosure, faces, poses, hands) :
                Predict(CurrentClosure, d, CancelRef(rafQueue), "effect")
       ELSE /\ rafQueue' = CancelRef(rafQueue)
            /\ animationFrameRef' =
                  IF animationFrameRef = "null" THEN "null" ELSE "stale"
            /\ effectPending' = FALSE
            /\ UNCHANGED << faceObj, handsObj, pose, detectionStatus, lastTick >>
    /\ UNCHANGED << isTracking, srcObject, videoReady, settings, micLevel,
                    faceLandmarkerRef, poseLandmarkerRef, handLandmarkerRef,
                    initPc, vrm, clock >>
    /\ IF vrm = "loaded"
       THEN ApplyFrame(settings, faceObj', pose, handsObj', micLevel)
       ELSE UNCHANGED rigVars
    /\ UNCHANGED << hostVars, micVars, fpsRef, cameraVars, renderLoop >>

\* The display refresh runs the callback registered first: predict with the
\* closure it was created in.
AnimationFrame(faces, poses, hands) ==
    /\ rafQueue # << >>
    /\ \E d \in DetectionsFor(Head(rafQueue), faces, poses, hands) :
            Predict(Head(rafQueue), d, Tail(rafQueue), "frame")
    /\ UNCHANGED << isTracking, srcObject, videoReady, settings, micLevel,
                    faceLandmarkerRef, poseLandmarkerRef, handLandmarkerRef,
                    initPc, vrm, clock >>
    /\ UNCHANGED rigVars
    /\ UNCHANGED << hostVars, micVars, fpsRef, cameraVars, renderLoop >>

\* The detector results met by the tracking hook on its own.
TrackerFaces == FaceResults({BlendTalk})

TrackerPoses == PoseResults({PoseArmsDown})

\* In front of this camera at most a left hand is shown.
TrackerHands == { h \in HandResults({HandUp}) : h.right = << >> }

\* The tracking hook: start and stop, the video element, the smoothing
\* slider, the start/stop effect and the display refresh.
Next ==
    \/ StartTracking
    \/ StopTracking
    \/ VideoReadyChanges
    \/ \E v \in SmoothingValues : SetTrackingSmoothing(v)
    \/ StartStopEffect(TrackerFaces, TrackerPoses, TrackerHands)
    \/ AnimationFrame(TrackerFaces, TrackerPoses, TrackerHands)

Spec == Init /\ [][Next]_vars

-----------------------------------------------------------------------------
(* The applier and its inputs at work                                      *)

\* VTuberApp renders again for a reason of its own (the FPS counter of
\* App.jsx:254-273, a log line): modelTransform is a new object at every
\* render (App.jsx:89), so the effect runs again on unchanged props.
Rerender ==
    /\ ApplyFrame(settings, faceObj, pose, handsObj, micLevel)
    /\ UNCHANGED << settings, micLevel, vrm, clock >>
    /\ UNCHANGED trackerVars
    /\ UNCHANGED << hostVars, micVars, fpsRef, cameraVars, renderLoop >>

\* part_000:4, 171   useVRMAnimation is given another micLevel, its fifth
\* prop, and the effect runs.  (setMicLevel of App.jsx:183 is the only
\* writer in VTuberApp; UpdateLevel tells when it is reached.)
SetMicLevel(m) ==
    /\ micLevel # m
    /\ micLevel' = m
    /\ ApplyFrame(settings, faceObj, pose, handsObj, m)
    /\ UNCHANGED << settings, vrm, clock >>
    /\ UNCHANGED trackerVars
    /\ UNCHANGED << hostVars, micVars, fpsRef, cameraVars, renderLoop >>

\* App.jsx:446, 472   a checkbox or slider of the settings panel changes one
\* setting; the effect runs with the new settings.
ChangeSetting(key, value) ==
    /\ settings[key] # value
    /\ settings' = [settings EXCEPT ![key] = value]
    /\ ApplyFrame(settings', faceObj, pose, handsObj, micLevel)
    /\ UNCHANGED << micLevel, vrm, clock >>
    /\ UNCHANGED trackerVars
    /\ UNCHANGED << hostVars, micVars, fpsRef, cameraVars, renderLoop >>

\* useMediaPipeTracking.js:207-208   predict publishes a frame, seen from
\* useVRMAnimation: the frame changes and the effect runs on it.
FramePublished(faces, poses, hands) ==
    \E d \in DetectionsFor(CurrentClosure, faces, poses, hands) :
      \E r \in {TickResult(CurrentClosure, d)} :
        /\ ~r.threw
        /\ faceObj' = r.face
        /\ handsObj' = r.hands
        /\ pose' = r.pose
        /\ detectionStatus' = r.status
        /\ ApplyFrame(settings, r.face, r.pose, r.hands, micLevel)
        /\ UNCHANGED << isTracking, srcObject, videoReady, settings, micLevel,
                        faceLandmarkerRef, poseLandmarkerRef, handLandmarkerRef,
                        initPc, rafQueue, animationFrameRef, effectPending,
                        vrm, clock, lastTick >>
    /\ UNCHANGED << hostVars, micVars, fpsRef, cameraVars, renderLoop >>

\* Date.now() as the runs of the effect sample it: 0.05 s and 0.15 s into
\* each second up to MaxSeconds.
Times == { 100 * sec + f : sec \in 0..MaxSeconds, f \in {5, 15} }

ClockAdvance ==
    /\ \E t \in Times : t > clock /\ clock' = t
    /\ UNCHANGED << settings, micLevel, vrm >>
    /\ UNCHANGED trackerVars
    /\ UNCHANGED rigVars
    /\ UNCHANGED << hostVars, micVars, fpsRef, cameraVars, renderLoop >>

-----------------------------------------------------------------------------
(* The applier at work: a loaded rig, live tracking, the settings panel    *)

\* Everything outside the rig once the model is loaded and tracking runs.
\* The applier reads none of the tracking loop's own variables (rafQueue,
\* animationFrameRef, effectPending, lastTick); the specifications of this
\* part hold them at their first values.
LiveInit ==
    /\ isTracking = TRUE
    /\ srcObject = TRUE
    /\ videoReady = TRUE
    /\ handsObj = InitialHands
    /\ pose = InitialPose
    /\ detectionStatus = InitialDetectionStatus
    /\ faceLandmarkerRef = "open"
    /\ poseLandmarkerRef = "open"
    /\ handLandmarkerRef = "open"
    /\ initPc = << >>
    /\ rafQueue = << >>
    /\ animationFrameRef = "null"
    /\ effectPending = FALSE
    /\ vrm = "loaded"
    /\ expr = RestExpr
    /\ bones = RestBones
    /\ lastTick = NoTick
    /\ lastRun = NoRun
    /\ trackingStatus = "running"
    /\ lastError = "null"
    /\ lastLog = LogEntry("tracking started", "success")
    /\ isMicEnabled = FALSE
    /\ micQueue = << >>
    /\ fpsRef = 0
    /\ cameraPending = 0
    /\ renderLoop = LoopStarted("null")
    /\ toggleOdd = TRUE

InitApplier ==
    /\ LiveInit
    /\ settings = DefaultSettings
    /\ micLevel = 0
    /\ faceObj = InitialFace
    /\ clock = 5

ApplierFaces ==
    {NoFaceResult("none")}
    \cup [kind : {"face"}, landmarks : {FaceLandmarks(0)}, hasBlend : {TRUE},
          blend : BlendSamples]

ApplierPoses == {NoPoseResult("none")} \cup [kind : {"pose"}, pose : {PoseLeftArmOut}]

ApplierHands ==
    {NoHandsResult("hands"), [kind |-> "hands", left |-> HandUp, right |-> << >>]}

AppliedToggles == {"faceTrackingEnabled", "bodyTrackingEnabled", "blinkEnabled"}

NextApplier ==
    \/ Rerender
    \/ ClockAdvance
    \/ \E k \in AppliedToggles : ChangeSetting(k, ~settings[k])
    \/ FramePublished(ApplierFaces, ApplierPoses, ApplierHands)

SpecApplier == InitApplier /\ [][NextApplier]_vars

-----------------------------------------------------------------------------
(* The expression weights over the whole range of their inputs             *)

\* Scores, microphone levels and sensitivities in tenths.
JawScores == {0, 2, 10}

EndScores == {0, 10}

Sensitivities == {0, 7, 10}

FuserBlendShapes ==
    {EmptyBlendShapes}
    \cup [jawOpen : JawScores, eyeBlinkLeft : EndScores, eyeBlinkRight : EndScores,
          mouthSmileLeft : EndScores, mouthSmileRight : EndScores,
          browInnerUp : EndScores, browDownLeft : EndScores,
          browDownRight : EndScores]

FuserSettings ==
    { [DefaultSettings EXCEPT !.faceTrackingEnabled = f, !.lipSyncEnabled = l,
                              !.blinkEnabled = b, !.lipSyncSensitivity = v] :
        f \in BOOLEAN, l \in BOOLEAN, b \in BOOLEAN, v \in Sensitivities }

InitFuser ==
    /\ LiveInit
    /\ settings \in FuserSettings
    /\ micLevel \in MicLevels
    /\ faceObj \in [rotation : {ZeroRotation}, blendShapes : FuserBlendShapes]
    /\ clock \in {5, 15}

NextFuser ==
    \/ Rerender
    \/ \E m \in MicLevels : SetMicLevel(m)

SpecFuser == InitFuser /\ [][NextFuser]_vars

-----------------------------------------------------------------------------
(* The toolbar: camera and microphone                                      *)

NoDetections ==
    [faces |-> {NoFaceResult("none")}, poses |-> {NoPoseResult("none")},
     hands |-> {NoHandsResult("hands")}]

NextHost ==
    \/ StartTracking
    \/ \E msg \in CameraErrors : StartTrackingFails(msg)
    \/ StopTracking
    \/ VideoReadyChanges
    \/ \E level \in MicLevels : EnableMicrophone(level)
    \/ \E msg \in CameraErrors : EnableMicrophoneFails(msg)
    \/ DisableMicrophone
    \/ StartStopEffect(NoDetections.faces, NoDetections.poses, NoDetections.hands)
    \/ AnimationFrame(NoDetections.faces, NoDetections.poses, NoDetections.hands)

SpecHost == Init /\ [][NextHost]_vars

-----------------------------------------------------------------------------
(* Tracking and the applier together: a loaded rig on a running loop       *)

InitPipeline ==
    /\ isTracking = FALSE
    /\ srcObject = FALSE
    /\ videoReady = FALSE
    /\ settings = DefaultSettings
    /\ micLevel = 0
    /\ faceObj = InitialFace
    /\ handsObj = InitialHands
    /\ pose = InitialPose
    /\ detectionStatus = InitialDetectionStatus
    /\ faceLandmarkerRef = "open"
    /\ poseLandmarkerRef = "open"
    /\ handLandmarkerRef = "open"
    /\ initPc = << >>
    /\ rafQueue = << >>
    /\ animationFrameRef = "null"
    /\ effectPending = TRUE
    /\ vrm = "loaded"
    /\ expr = RestExpr
    /\ bones = RestBones
    /\ clock = 15
    /\ lastTick = NoTick
    /\ lastRun = NoRun
    /\ trackingStatus = "idle"
    /\ lastError = "null"
    /\ lastLog = NoLog
    /\ isMicEnabled = FALSE
    /\ micQueue = << >>
    /\ fpsRef = 0
    /\ cameraPending = 0
    /\ renderLoop = LoopStarted("null")
    /\ toggleOdd = FALSE

PipelineFaces ==
    {NoFaceResult("none")}
    \cup [kind : {"face"}, landmarks : FaceLandmarkSamples, hasBlend : {FALSE},
          blend : {EmptyBlendShapes}]

PipelinePoses == {NoPoseResult("none")} \cup [kind : {"pose"}, pose : {PoseArmsDown}]

NextPipeline ==
    \/ StartTracking
    \/ StopTracking
    \/ VideoReadyChanges
    \/ StartStopEffect(PipelineFaces, PipelinePoses, NoDetections.hands)
    \/ AnimationFrame(PipelineFaces, PipelinePoses, NoDetections.hands)

SpecPipeline == InitPipeline /\ [][NextPipeline]_vars

-----------------------------------------------------------------------------
(* The tracking loop under a browser that keeps refreshing the display     *)

LiveFaces ==
    {NoFaceResult("throw"), NoFaceResult("none"),
     [kind |-> "face", landmarks |-> FaceLandmarks(0), hasBlend |-> FALSE,
      blend |-> EmptyBlendShapes]}

LivePoses == {NoPoseResult("throw"), NoPoseResult("none")}

InitLive == Init /\ settings = DefaultSettings

NextLive ==
    \/ StartTracking
    \/ StopTracking
    \/ VideoReadyChanges
    \/ StartStopEffect(LiveFaces, LivePoses, NoDetections.hands)
    \/ AnimationFrame(LiveFaces, LivePoses, NoDetections.hands)

\* The browser runs every registered animation-frame callback at the next
\* display refresh, and React runs every effect that is waiting.
SpecLive ==
    /\ InitLive
    /\ [][NextLive]_vars
    /\ WF_vars(AnimationFrame(LiveFaces, LivePoses, NoDetections.hands))
    /\ WF_vars(StartStopEffect(LiveFaces, LivePoses, NoDetections.hands))

-----------------------------------------------------------------------------
(* The rig while nothing is tracked: what makes the applier run            *)

\* App.jsx:254-274   updateFPS, the display-refresh callback of the FPS
\* counter, at a refresh a second or more after fpsRef.lastTime: it stores
\* the count with setDebugData, VTuberApp renders, and the effect of
\* useVRMAnimation runs because modelTransform is a new object (App.jsx:89).
\* The counter is registered only while settings.showFPS is on (:255).
UpdateFPS ==
    /\ settings.showFPS
    /\ clock - fpsRef >= 100
    /\ fpsRef' = clock
    /\ UNCHANGED << settings, micLevel, vrm, clock >>
    /\ UNCHANGED trackerVars
    /\ UNCHANGED << hostVars, micVars, cameraVars, renderLoop >>
    /\ AppRendered

NextIdle ==
    \/ ClockAdvance
    \/ UpdateFPS
    \/ ChangeSetting("showFPS", ~settings.showFPS)
    \/ StartTracking
    \/ StopTracking
    \/ StartStopEffect(NoDetections.faces, NoDetections.poses, NoDetections.hands)
    \/ AnimationFrame(NoDetections.faces, NoDetections.poses, NoDetections.hands)

\* The browser keeps refreshing the display: every registered callback
\* (updateFPS, predict) runs, and React runs every effect that is waiting.
SpecIdle ==
    /\ InitPipeline
    /\ [][NextIdle]_vars
    /\ WF_vars(UpdateFPS)
    /\ WF_vars(AnimationFrame(NoDetections.faces, NoDetections.poses,
                              NoDetections.hands))
    /\ WF_vars(StartStopEffect(NoDetections.faces, NoDetections.poses,
                               NoDetections.hands))

-----------------------------------------------------------------------------
(* Detections whose landmark list lacks an index that is read              *)

\* A hand reported with five landmarks: index 9 is missing.
HandShort == SubSeq(HandUp, 1, 5)

MissingFaces ==
    {NoFaceResult("none"), NoFaceResult("short"),
     [kind |-> "face", landmarks |-> FaceLandmarks(1), hasBlend |-> FALSE,
      blend |-> EmptyBlendShapes]}

MissingPoses ==
    {NoPoseResult("none"), NoPoseResult("short"),
     [kind |-> "pose", pose |-> PoseArmsDown]}

MissingHands ==
    {NoHandsResult("hands"),
     [kind |-> "hands", left |-> HandShort, right |-> << >>],
     [kind |-> "hands", left |-> HandUp, right |-> << >>]}

\* An error thrown by an effect with no error boundary around VTuberApp
\* (there is none in App.jsx) makes React unmount the whole tree: nothing
\* of VTuberApp runs after it.
NextMissing ==
    \/ ~lastRun.error /\ StartTracking
    \/ ~lastRun.error /\ StopTracking
    \/ ~lastRun.error /\ VideoReadyChanges
    \/ ~lastRun.error /\ StartStopEffect(MissingFaces, MissingPoses, MissingHands)
    \/ ~lastRun.error /\ AnimationFrame(MissingFaces, MissingPoses, MissingHands)

SpecMissing == InitPipeline /\ [][NextMissing]_vars

-----------------------------------------------------------------------------
(* The landmarkers: initialisation, the modality checkboxes and close()    *)

\* A landmarker asked for a detection finds nothing or throws.
QuietFaces == {NoFaceResult("throw"), NoFaceResult("none")}

QuietPoses == {NoPoseResult("throw"), NoPoseResult("none")}

QuietHands == {NoHandsResult("throw"), NoHandsResult("hands")}

NextLandmarkers ==
    \/ \E i \in 1..Len(initPc) : InitializeMediaPipeStep(i)
    \/ \E i \in 1..Len(initPc) : InitializeMediaPipeFails(i)
    \/ \E key \in Modalities : ToggleModality(key)
    \/ StartTracking
    \/ StopTracking
    \/ VideoReadyChanges
    \/ StartStopEffect(QuietFaces, QuietPoses, QuietHands)
    \/ AnimationFrame(QuietFaces, QuietPoses, QuietHands)

SpecLandmarkers == MountInit /\ [][NextLandmarkers]_vars

-----------------------------------------------------------------------------
(* toggleTracking called again while the camera is awaited                 *)

NextCamera ==
    \/ ToggleTrackingAwaits
    \/ ToggleTrackingResumes
    \/ StopTracking
    \/ VideoReadyChanges
    \/ StartStopEffect(NoDetections.faces, NoDetections.poses, NoDetections.hands)
    \/ AnimationFrame(NoDetections.faces, NoDetections.poses, NoDetections.hands)

SpecCamera == InitLive /\ [][NextCamera]_vars

-----------------------------------------------------------------------------
(* useVRMRenderer: the model is loaded while the render loop runs          *)

\* part_000:279-298   loader.load succeeds: setVrm(loadedVrm).  VTuberApp
\* renders with the model and the effect of useVRMAnimation runs on it.
\* The effect of :188-257 does not run again.
VrmLoaded ==
    /\ vrm = "null"
    /\ vrm' = "loaded"
    /\ EffectBody(settings, faceObj, pose, handsObj, micLevel)
    /\ UNCHANGED << settings, micLevel, clock, fpsRef, renderLoop >>
    /\ UNCHANGED trackerVars
    /\ UNCHANGED << hostVars, micVars, cameraVars >>

\* part_000:241-250   one iteration of animate at a display refresh: it
\* registers itself again, calls vrm.update(delta) if the vrm of its closure
\* is not null, and renders.
Animate ==
    /\ renderLoop' = [vrm |-> renderLoop.vrm,
                      updated |-> renderLoop.vrm # "null",
                      turn |-> 1 - renderLoop.turn]
    /\ UNCHANGED << settings, micLevel, vrm, clock, fpsRef >>
    /\ UNCHANGED trackerVars
    /\ UNCHANGED rigVars
    /\ UNCHANGED << hostVars, micVars, cameraVars >>

NextRenderer ==
    \/ VrmLoaded
    \/ Animate
    \/ ClockAdvance
    \/ UpdateFPS

SpecRenderer == InitLive /\ [][NextRenderer]_vars

-----------------------------------------------------------------------------
(* Head rotation: the landmarks and the mirrorMode checkbox                *)

\* A head turned right and nodding with the eyes level: nose (0.667, 0.55),
\* eyes (0.45, 0.5) and (0.55, 0.5).
FaceTurned ==
    [noseTip |-> Pt(80, 66), leftEye |-> Pt(54, 60), rightEye |-> Pt(66, 60)]

RotationFaces ==
    {NoFaceResult("none")}
    \cup [kind : {"face"}, landmarks : FaceLandmarkSamples \cup {FaceTurned},
          hasBlend : {FALSE}, blend : {EmptyBlendShapes}]

NextRotation ==
    \/ StartTracking
    \/ StopTracking
    \/ VideoReadyChanges
    \/ ToggleMirrorMode
    \/ StartStopEffect(RotationFaces, NoDetections.poses, NoDetections.hands)
    \/ AnimationFrame(RotationFaces, NoDetections.poses, NoDetections.hands)

SpecRotation == InitLive /\ [][NextRotation]_vars

-----------------------------------------------------------------------------
(* Properties of the tracking hook                                         *)

Axes == {"x", "y", "z"}

Published == lastTick.outcome = "published"

\* C1: for trackingSmoothing s in (0,1), a tick that detects a face publishes,
\* on each axis, previous + (raw - previous) * (1 - s), where previous is the
\* rotation the preceding tick published and raw this tick's unsmoothed
\* rotation.  (Stated without division: 10 * (new - previous) =
\* (raw - previous) * (10 - s), s in tenths.)
C1_SmoothedRotation ==
    [][(/\ lastTick.outcome = "published"
        /\ lastTick'.outcome = "published"
        /\ lastTick'.status.faceDetected
        /\ lastTick'.smooth \in 1..9)
       => \A a \in Axes :
            10 * (faceObj'.rotation[a] - faceObj.rotation[a])
              = (lastTick'.raw[a] - faceObj.rotation[a]) * (10 - lastTick'.smooth)]_vars

\* C2: a tick that publishes a frame without having detected a face leaves
\* the head rotation, on all three axes, as it was when the tick began,
\* whatever trackingSmoothing is.
C2_RotationHeld ==
    [][(lastTick'.outcome = "published" /\ ~lastTick'.status.faceDetected)
       => faceObj'.rotation = faceObj.rotation]_vars

\* C2 witness: a smoothing tick without a face has just published, and the
\* head rotation it held is not the initial zero.
C2_Witness ==
    /\ Published
    /\ ~lastTick.status.faceDetected
    /\ lastTick.smooth > 0
    /\ faceObj.rotation # ZeroRotation

\* C3: after a completed tick, a side the hand detector did not report in
\* that tick has detected = false and no landmarks.
C3_UnreportedHandCleared ==
    Published =>
        \A s \in Sides : ~lastTick.status.handsDetected[s] => handsObj[s] = NoHand

\* C4: after a completed tick in which the face detector supplied no blend
\* shapes, the frame's blend-shape mapping is empty.
C4_NoBlendShapesMeansEmpty ==
    (Published /\ ~lastTick.blendSeen) => faceObj.blendShapes = EmptyBlendShapes

\* C5: after a tick that ran with tracking on and the video ready, completed
\* or not, every flag of detectionStatus tells what the detectors reported in
\* that tick.
C5_StatusOfThisTick ==
    lastTick.outcome \in {"published", "threw"} => detectionStatus = lastTick.status


\* The applier ran at least once.
Applied == lastRun.t >= 0

\* C6: after a run of the applier with face tracking and lip sync on, the
\* weight of 'aa' is the larger of the frame's jawOpen (0 when absent) and
\* the microphone level, times lipSyncSensitivity (in hundredths: 0.2, 0.6
\* and 0.7 give 0.42); a run with lip sync off does not write 'aa'.
C6_LipSyncIsFloor ==
    Applied =>
      /\ (settings.faceTrackingEnabled /\ settings.lipSyncEnabled) =>
            LET jawOpen == IF "jawOpen" \in DOMAIN faceObj.blendShapes
                           THEN faceObj.blendShapes["jawOpen"] ELSE 0
            IN  expr.aa = (IF jawOpen >= micLevel THEN jawOpen ELSE micLevel)
                            * settings.lipSyncSensitivity
      /\ ~settings.lipSyncEnabled => "aa" \notin lastRun.wrote

\* The scenario of the spec: jawOpen 0.2, micLevel 0.6, sensitivity 0.7.
C6_Witness ==
    /\ Applied
    /\ settings.faceTrackingEnabled /\ settings.lipSyncEnabled
    /\ "jawOpen" \in DOMAIN faceObj.blendShapes
    /\ faceObj.blendShapes["jawOpen"] = 2
    /\ micLevel = 6
    /\ settings.lipSyncSensitivity = 7
    /\ expr.aa = 42

\* C7 as stated: every expression weight on the rig lies in [0, 1].
C7_AllWeightsInUnit ==
    \A n \in DOMAIN expr : expr[n] \in 0..100

\* C7: blink, blinkLeft, blinkRight, aa and surprised lie in [0, 1]; happy
\* and angry are sums of two scores and lie in [0, 2].
C7_WeightRanges ==
    /\ \A n \in {"blink", "blinkLeft", "blinkRight", "aa", "surprised"} :
          expr[n] \in 0..100
    /\ \A n \in {"happy", "angry"} : expr[n] \in 0..200

C7_Witness ==
    /\ Applied
    /\ expr.happy = 200
    /\ expr.angry = 200
    /\ expr.aa = 100
    /\ expr.blinkLeft = 100

\* C8: a run of the applier blinks on its own only if, at that run,
\* blinkEnabled is on, the frame's eyeBlinkLeft is zero or absent, and the
\* time is in the first 0.15 s of a second that is a multiple of
\* blinkInterval (4 when the setting holds none; App.jsx always holds 4).
C8_AutoBlinkOnlyInWindow ==
    lastRun.autoBlink =>
      /\ settings.blinkEnabled
      /\ ("eyeBlinkLeft" \in DOMAIN faceObj.blendShapes
            => faceObj.blendShapes["eyeBlinkLeft"] = 0)
      /\ (lastRun.t \div 100)
            % (IF settings.blinkInterval = 0 THEN 4 ELSE settings.blinkInterval) = 0
      /\ lastRun.t % 100 < 15

C8_Witness ==
    /\ lastRun.autoBlink
    /\ lastRun.t = 405
    /\ "eyeBlinkLeft" \in DOMAIN faceObj.blendShapes
    /\ expr.blink = 100

\* C9: after a run of the applier with blinkEnabled on, at a time outside
\* the blink windows, the blink weight is the tracked one, the mean of
\* eyeBlinkLeft and eyeBlinkRight, whatever faceTrackingEnabled is.
C9_BlinkIsPulse ==
    (/\ Applied
     /\ settings.blinkEnabled
     /\ ~(/\ (lastRun.t \div 100)
               % (IF settings.blinkInterval = 0 THEN 4 ELSE settings.blinkInterval) = 0
          /\ lastRun.t % 100 < 15))
    => expr.blink = (Score(faceObj.blendShapes, "eyeBlinkLeft")
                     + Score(faceObj.blendShapes, "eyeBlinkRight")) * 5

\* C10: a run of the applier on a frame for which no pose was detected
\* writes no arm bone; the arms keep the rotations they had.
C10_NoPoseNoArmWrite ==
    [][(lastRun' # lastRun /\ ~detectionStatus'.poseDetected)
       => /\ lastRun'.wrote \cap {"leftUpperArm", "rightUpperArm",
                                  "leftLowerArm", "rightLowerArm"} = {}
          /\ bones'.leftUpperArm = bones.leftUpperArm
          /\ bones'.rightUpperArm = bones.rightUpperArm
          /\ bones'.leftLowerArm = bones.leftLowerArm
          /\ bones'.rightLowerArm = bones.rightLowerArm]_vars

\* A step in which predict ran.
TickStep == lastTick'.turn # lastTick.turn

LandmarkerRefs == << faceLandmarkerRef, poseLandmarkerRef, handLandmarkerRef >>

\* C11: once tracking is switched to stopped, no run of predict extracts or
\* publishes anything, and once the start/stop effect has run for the stop
\* no predict callback is left with the display refresh.
C11_StoppedMeansNoTicks ==
    [][/\ (~isTracking /\ TickStep) => lastTick'.outcome = "noop"
       /\ (~isTracking' /\ ~effectPending') => rafQueue' = << >>]_vars

\* C12: after tracking was stopped and the stop has taken effect, no
\* landmarker that was created is still open: close() ran on each.
C12_StoppedMeansClosed ==
    (trackingStatus = "stopped" /\ ~effectPending)
        => \A i \in 1..3 : LandmarkerRefs[i] # "open"

\* C13: a run of predict while the video is not ready changes neither the
\* frame nor the detection status, asks for no render, leaves the rig alone
\* when the display refresh called it, does not throw, and leaves exactly
\* one more callback with the display refresh than were waiting.
C13_UnreadyTickIsNoop ==
    [][(TickStep /\ ~videoReady) =>
          /\ lastTick'.outcome = "noop"
          /\ UNCHANGED << faceObj, handsObj, pose, detectionStatus >>
          /\ (effectPending' => effectPending)
          /\ (lastTick'.via = "frame" => UNCHANGED rigVars)
          /\ animationFrameRef' = "live"
          /\ Len(rafQueue') = 1 + (IF lastTick'.via = "frame"
                                   THEN Len(rafQueue) - 1
                                   ELSE Len(CancelRef(rafQueue)))]_vars

C13_Witness ==
    /\ isTracking /\ ~videoReady
    /\ lastTick.outcome = "noop"
    /\ lastTick.via = "frame"
    /\ Len(rafQueue) = 1
    /\ Applied
    /\ detectionStatus.faceDetected

\* C14: of two runs of predict in a row that both publish a frame, the
\* second one was called by the display refresh: no frame is published
\* twice between two display-refresh callbacks.
C14_OnePublishPerRefresh ==
    [][(TickStep /\ Published /\ lastTick'.outcome = "published")
          => lastTick'.via = "frame"]_vars

\* C15: the head rotation the applier writes after a tick has published a
\* frame is the rotation of that frame: no later tick has changed it
\* before it is written.
C15_AppliedFrameIsPublishedFrame ==
    [][(Published /\ effectPending /\ bones'.head # bones.head) =>
          bones'.head = Rot(faceObj.rotation.x * settings.trackingSpeed,
                            faceObj.rotation.y * settings.trackingSpeed,
                            faceObj.rotation.z * settings.trackingSpeed)]_vars

\* C16: after a tick in which a detector threw, what the detectors before
\* it reported in that tick is published: the detection status shows a face
\* or a pose that was reported, and shows the failed one as not detected.
C16_ThrowSkipsOneModality ==
    lastTick.outcome = "threw" =>
        /\ detectionStatus.faceDetected = lastTick.status.faceDetected
        /\ detectionStatus.poseDetected = lastTick.status.poseDetected

C18_SamplerRunsWhileEnabled ==
    isMicEnabled => Len(micQueue) = 1

\* C19: isTracking becomes true only in a step that has the camera stream
\* set and sets trackingStatus to 'running'; a failed start leaves
\* isTracking false and trackingStatus as it was, and puts the error
\* message into lastError and the log.
C19_RunningNeedsCamera ==
    [][/\ (~isTracking /\ isTracking') =>
             (srcObject' /\ trackingStatus' = "running"
              /\ lastLog'.type = "success" /\ lastError' = lastError)
       /\ (lastError' # lastError) =>
             (/\ ~isTracking /\ ~isTracking'
              /\ trackingStatus' = trackingStatus
              /\ trackingStatus' # "running"
              /\ lastLog' = LogEntry(lastError', "error"))]_vars

C19_Witness ==
    /\ lastError \in CameraErrors
    /\ ~isTracking
    /\ trackingStatus = "idle"
    /\ lastLog = LogEntry(lastError, "error")

\* C20: a tick with trackingSmoothing 0 that publishes a detected face
\* publishes that tick's raw rotation, on every axis.
C20_NoSmoothingIsRaw ==
    (Published /\ lastTick.status.faceDetected /\ lastTick.smooth = 0)
        => \A a \in Axes : faceObj.rotation[a] = lastTick.raw[a]

C20_Witness ==
    /\ Published
    /\ lastTick.status.faceDetected
    /\ lastTick.smooth = 0
    /\ lastTick.raw # ZeroRotation
    /\ faceObj.rotation = lastTick.raw

\* C21: in a tick that detects a face with nose tip N and eye points L, R,
\* the raw rotation stored is rotation.y = (N.x - 0.5) * 60 and rotation.x =
\* (N.y - (L.y + R.y) / 2) * 60 degrees, rotation.z is 0 when the eyes are
\* level with L left of R, and every axis is negated when the mirrorMode of
\* the running closure is true: two ticks in a row on the same landmarks
\* with different mirrorMode store opposite rotations.  (Quarter degrees
\* and coordinates in 1/120: 4 * yaw = 2 * N.x - 120.)
C21_RawRotationFromLandmarks ==
    [][(TickStep /\ lastTick'.status.faceDetected) =>
          LET N    == lastTick'.landmarks.noseTip
              L    == lastTick'.landmarks.leftEye
              R    == lastTick'.landmarks.rightEye
              sign == IF lastTick'.mirror THEN -1 ELSE 1
          IN  /\ lastTick'.raw.y = sign * (2 * N.x - 120)
              /\ lastTick'.raw.x = sign * (2 * N.y - (L.y + R.y))
              /\ (L.y = R.y /\ L.x < R.x) => lastTick'.raw.z = 0
              /\ (/\ lastTick.status.faceDetected
                  /\ lastTick.landmarks = lastTick'.landmarks
                  /\ lastTick.mirror # lastTick'.mirror)
                 => \A a \in Axes : lastTick'.raw[a] = - lastTick.raw[a]]_vars

\* The head of FaceLandmarks(1) seen unmirrored right after it was seen
\* mirrored: pitch 3, yaw 10, roll 45 degrees.
C21_Witness ==
    /\ lastTick.status.faceDetected
    /\ ~lastTick.mirror
    /\ lastTick.landmarks = FaceLandmarks(1)
    /\ lastTick.raw = Rot(12, 40, 180)

\* C22: a run of predict that gets past the early return does not modify the
\* frame the previous tick published: the face object and the hands object
\* that frame refers to hold after the run what they held before it, and
\* the rotation read as `previous` by the smoothing of :202-204 is the one
\* the previous tick published.  (faceObj and handsObj are the objects the
\* previous frame and, by the shallow copy of :112, the new one refer to.)
C22_PreviousFrameUntouched ==
    [][(TickStep /\ Published /\ lastTick'.outcome # "noop") =>
          /\ faceObj' = faceObj
          /\ handsObj' = handsObj
          /\ lastTick'.status.faceDetected =>
                PreviousRotationRead(faceObj.rotation, lastTick'.raw)
                    = faceObj.rotation]_vars

\* C23: after a run of the applier that writes expressions (face tracking
\* on), 'happy' is mouthSmileLeft + mouthSmileRight, 'surprised' is
\* browInnerUp and 'angry' is browDownLeft + browDownRight (absent scores
\* as 0), and the run wrote all three, whatever lipSyncEnabled and
\* blinkEnabled are.
C23_FuserRulesIndependent ==
    (Applied /\ settings.faceTrackingEnabled) =>
        /\ {"happy", "surprised", "angry"} \subseteq lastRun.wrote
        /\ expr.happy = (Score(faceObj.blendShapes, "mouthSmileLeft")
                         + Score(faceObj.blendShapes, "mouthSmileRight")) * 10
        /\ expr.surprised = Score(faceObj.blendShapes, "browInnerUp") * 10
        /\ expr.angry = (Score(faceObj.blendShapes, "browDownLeft")
                         + Score(faceObj.blendShapes, "browDownRight")) * 10

\* C24: while idleAnimationEnabled is on and a rig is loaded, the chest
\* pitch keeps being rewritten from the wall clock: again and again the
\* applier has run within the last second and the chest holds the phase
\* 2t of that run, also while tracking is stopped and nothing changes.
C24_IdleBreathingContinues ==
    []<>(settings.idleAnimationEnabled =>
            /\ "chest" \in lastRun.wrote
            /\ lastRun.t + 100 > clock
            /\ bones.chest = 2 * lastRun.t)

\* C25: a detection whose landmark list lacks an index that is read counts
\* as no detection.  The tick that meets one completes and publishes, with
\* that modality not detected and, for a face, the head rotation as it was;
\* and no run of the applier throws.
C25_MissingIndexIsNotDetected ==
    [][/\ (TickStep /\ lastTick'.missing # {}) =>
             /\ lastTick'.outcome = "published"
             /\ "face" \in lastTick'.missing =>
                   (faceObj'.rotation = faceObj.rotation
                    /\ ~detectionStatus'.faceDetected)
             /\ "pose" \in lastTick'.missing => ~detectionStatus'.poseDetected
       /\ (lastRun' # lastRun) => ~lastRun'.error]_vars

\* C26: a run of predict in which a detector call throws leaves the frame
\* as the last completed tick published it: the face (rotation and blend
\* shapes), the hands and the pose that the applier and the next tick read
\* are what they were before the run.
C26_FailedTickLeavesFrame ==
    [][(TickStep /\ lastTick'.outcome = "threw") =>
          /\ faceObj' = faceObj
          /\ handsObj' = handsObj
          /\ pose' = pose]_vars

\* C27: at most one predict callback is registered with the display
\* refresh at any moment, whatever start, stop, the smoothing slider and
\* the renders after published frames do; when one is registered,
\* animationFrameRef holds its handle, so cancelling the ref leaves none.
C27_OneCallbackPending ==
    /\ Len(rafQueue) <= 1
    /\ rafQueue # << >> => animationFrameRef = "live"

\* A callback created before the slider was moved is waiting after a frame
\* was published.
C27_Witness ==
    /\ Published
    /\ isTracking
    /\ effectPending
    /\ Len(rafQueue) = 1
    /\ Head(rafQueue).settings # settings
    /\ animationFrameRef = "live"

\* C28: no run of predict calls detectForVideo on a landmarker on which
\* close() has been called, however the modality checkboxes are flipped
\* while initialisation runs and ticks run.
C28_NoDetectAfterClose ==
    lastTick.closed = {}

\* C29: whenever no call of toggleTracking is awaiting the camera, tracking
\* is running exactly if toggleTracking has been called an odd number of
\* times (every camera request being granted).
C29_ToggleFlipsOnce ==
    cameraPending = 0 => (isTracking <=> toggleOdd)

\* C30: every iteration of the render loop that runs while a model is
\* loaded calls the model's update before it renders.
C30_LoadedModelIsUpdated ==
    [][(renderLoop'.turn # renderLoop.turn /\ vrm = "loaded")
          => renderLoop'.updated]_vars

=============================================================================
